---- MODULE Spec2Model ----
(***************************************************************************)
(* A model of the Character class of herstal.js: weapon selection, damage  *)
(* and armor, crouching, jumping and movement, ground probing and the      *)
(* input/state codec.                                                      *)
(*                                                                         *)
(* Numbers.  JavaScript numbers are modelled by integers in fixed units:   *)
(*   health, armor     in units of 1/ARMOR_DEN point, so that the armor's  *)
(*                     share damage*2/3 of a whole-point damage is exact;  *)
(*   lengths           in units of 0.025 (1/40), so that                   *)
(*                     CROUNCH_INCREMENT = 0.05 and the halves of the body *)
(*                     heights are integers;                               *)
(*   axis, velocities  in units of 1/AXIS_DEN, Math.sqrt and the division  *)
(*                     rounding down to the unit;                          *)
(*   angles            in quarter turns (Math.PI2 = 4, Math.HPI = 1).      *)
(* JavaScript values that may be undefined, null or NaN are tagged tuples. *)
(***************************************************************************)
EXTENDS Integers, Sequences, FiniteSets, TLC

VARIABLES
    ch,     \* the character: a record of the fields of `this`
    last,   \* the last call made on the character and what it was given
    pc,     \* where the character's code is: idle, or inside setWeapon's loop
    peer,   \* a second, fresh character: the target of the state decoder
    calls,  \* how many calls were made (bounds the runs)
    world,  \* the physics world: its answer to the downward ray of each probe
    jumps,  \* history: the jumps applied since the last tick with jump pressed
    statics \* the static properties of the class Character

vars == <<ch, last, pc, peer, calls, world, jumps, statics>>

(***************************************************************************)
(* JavaScript values                                                       *)
(***************************************************************************)
Undefined == <<"undefined">>
Null      == <<"null">>
NaN       == <<"NaN">>
Num(n)    == <<"number", n>>
Obj(r)    == <<"object", r>>

IsNum(v)  == v[1] = "number"
\* typeof v === "number" (NaN is a number)
TypeofNumber(v) == v[1] \in {"number", "NaN"}
\* v != null : neither null nor undefined
NotNullish(v) == v[1] \notin {"undefined", "null"}
\* the value of a number
Val(v) == v[2]
\* a value in a boolean context
Truthy(v) ==
    \/ IsNum(v) /\ Val(v) # 0
    \/ v[1] = "string" /\ Val(v) # ""
    \/ v[1] = "boolean" /\ Val(v)
    \/ v[1] = "object"
\* a || b
OrElse(a, b) == IF Truthy(a) THEN a ELSE b
\* v > 0, false when v is no number
GtZero(v) == IsNum(v) /\ Val(v) > 0

(***************************************************************************)
(* Static properties                                                       *)
(***************************************************************************)
\* the static properties of Character when the class is loaded: idCount is
\* set, idCounter is a property the class does not have and reads undefined
Statics == [idCount |-> Num(0), idCounter |-> Undefined]

(***************************************************************************)
(* Bounds of the model                                                     *)
(***************************************************************************)
\* calls made on one character in one run
MaxCalls == 3
\* slots of the weapon list given to the constructor
MaxWeapons == 3

\* Number.MAX_SAFE_INTEGER, 2^53 - 1 in the program: the model's safe
\* integers end here, so that runs reach the end of the range
MaxSafe == 3
\* characters constructed in one run
MaxCharacters == 9

\* ticks of updateCrounch with inputs chosen freely in one run
MaxTicks == 12

(***************************************************************************)
(* Program constants                                                       *)
(***************************************************************************)
\* Character.ARMOR_PROTECTION = 2/3
ARMOR_NUM == 2
ARMOR_DEN == 3
\* Character.JUMP_TIMER
JUMP_TIMER == 10
\* Character.STEEP_SLOPE
STEEP_SLOPE == 50
\* Character.CROUNCH_INCREMENT = 0.05, in the unit of lengths (0.025)
CROUNCH_INCREMENT == 2
\* defaults of the constructor
DEFAULT_HEALTH == 100
DEFAULT_MAX_HEALTH == 100
DEFAULT_MOVE_SPEED == 20
DEFAULT_CROUNCH_SPEED == 10
DEFAULT_JUMP_FORCE == 30
\* 0.4, 1.4 and 0.6 in the unit of lengths
DEFAULT_HEAD_HEIGHT == 16
DEFAULT_BODY_HEIGHT == 56
DEFAULT_BODY_CROUNCHED == 24

\* whole points to the unit of health and armor
Points(n) == n * ARMOR_DEN

(***************************************************************************)
(* The physics world, as the ray casts see it                              *)
(***************************************************************************)
\* the probe points of the ground and ceiling checks, in the order of
\* this.vertices: the centre, then the four corners
Vertices == 1 .. 5

\* this.dimensions, which updateGround and updateCrounch read the probes
\* from.  The constructor stores them as this.vertices and sets no
\* dimensions: the object is the base class's, holding the five probes.
Dimensions == [vertices |-> Vertices]

\* the bodies of the world: the static ground and two kinematic platforms
Bodies == {"ground", "liftA", "liftB"}
\* result.body.type === CANNON.Body.KINEMATIC
IsKinematic(body) == body # "ground"

\* a ray result: no hit, or the body hit and the angle (in degrees) between
\* the hit normal and the up axis
NoHit == [hasHit |-> FALSE]
Hit(angle, body) == [hasHit |-> TRUE, angle |-> angle, body |-> body]

\* the ray results the model's worlds are made of
RayResults ==
    {NoHit, Hit(0, "ground"), Hit(0, "liftA"), Hit(0, "liftB"),
     Hit(50, "ground"), Hit(80, "liftA")}

\* a world gives one ray result per probe point
Worlds == [Vertices -> RayResults]

\* the level ground under every probe
FlatWorld == [i \in Vertices |-> Hit(0, "ground")]

(***************************************************************************)
(* The constructor                                                         *)
(***************************************************************************)
\* the options the model gives to the constructor; a field left out in the
\* source's options object is Undefined here
NoOptions ==
    [health |-> Undefined, maxHealth |-> Undefined, armor |-> Undefined,
     maxArmor |-> Undefined, bodyHeight |-> Undefined,
     bodyCrounched |-> Undefined, headHeight |-> Undefined]

\* the dimension chosen by  x = x > 0 ? x : d
Dimension(x, d) == IF GtZero(x) THEN Val(x) ELSE d

\* new Character(controller, position, orientation, weapons, options),
\* for a construction that completes.  The record holds the fields of both
\* Character classes of the sources.  weapons is the sequence of the slots,
\* TRUE for a populated slot and FALSE for an absent one.
Character(weapons, options) ==
    LET hh == Dimension(options.headHeight, DEFAULT_HEAD_HEIGHT)
        bh == Dimension(options.bodyHeight, DEFAULT_BODY_HEIGHT)
        bc == Dimension(options.bodyCrounched, DEFAULT_BODY_CROUNCHED)
    IN  [weapons       |-> weapons,
         currentWeapon |-> IF Len(weapons) > 0 THEN Num(0) ELSE Null,
         health        |-> Val(OrElse(options.health, Num(Points(DEFAULT_HEALTH)))),
         maxHealth     |-> Val(OrElse(options.maxHealth, Num(Points(DEFAULT_MAX_HEALTH)))),
         armor         |-> options.armor,
         maxArmor      |-> options.maxArmor,
         isDead        |-> FALSE,
         moveSpeed     |-> DEFAULT_MOVE_SPEED,
         crounchSpeed  |-> DEFAULT_CROUNCH_SPEED,
         jumpForce     |-> DEFAULT_JUMP_FORCE,
         headHeight    |-> hh,
         bodyHeight    |-> bh,
         bodyCrounched |-> bc,
         orientation   |-> [x |-> 0, y |-> 0],
         isGounded     |-> FALSE,
         isGrounded    |-> Undefined,
         isCrounched   |-> FALSE,
         jumpTimer     |-> 0,
         platform      |-> Null,
         \* this.inputs, which the class of Weapon.js keeps
         inputs        |-> Null,
         \* body.position, body.velocity
         position      |-> [x |-> 0, y |-> bh, z |-> 0],
         velocity      |-> [x |-> Num(0), y |-> Num(0), z |-> Num(0)],
         \* body.shapes[0].halfExtents.y : new CANNON.Box({ x: bw, y: bh, z: bw })
         halfExtentsY  |-> bh,
         \* body.shapeOffsets[0].y : body_pos.y = -0.5 * bh
         shapeOffsetY  |-> -(bh \div 2),
         \* this.controller, kept by the base class: here the character of
         \* a construction without a controller
         controller    |-> Null,
         \* this.world and this.player, which the constructor does not set
         world         |-> Undefined,
         player        |-> Undefined,
         \* whether the body is among the bodies of the physics world: the
         \* constructor makes the body and adds it to no world
         bodyInWorld   |-> FALSE]

(***************************************************************************)
(* Damage, health and armor                                                *)
(***************************************************************************)
\* addDamage(damage) that forgets to charge the armor's shortfall to the health
addDamage_lostShortfall(c, damage) ==
    LET armorDamage == (damage * ARMOR_NUM) \div ARMOR_DEN
        left        == Val(c.armor) - armorDamage
        health      == c.health - (damage - armorDamage)
    IN  IF GtZero(c.armor)
        THEN [c EXCEPT !.armor  = Num(IF left < 0 THEN 0 ELSE left),
                       !.health = health,
                       !.isDead = IF health <= 0 THEN TRUE ELSE @]
        ELSE [c EXCEPT !.health = c.health - damage,
                       !.isDead = IF c.health - damage <= 0 THEN TRUE ELSE @]

\* addDamage(damage) that takes a health of exactly 0 for alive
addDamage_deadBelowZero(c, damage) ==
    LET armorDamage == (damage * ARMOR_NUM) \div ARMOR_DEN
        left        == Val(c.armor) - armorDamage
        hit         == IF GtZero(c.armor)
                       THEN (damage - armorDamage) - (IF left < 0 THEN left ELSE 0)
                       ELSE damage
        health      == c.health - hit
    IN  [c EXCEPT !.armor  = IF GtZero(c.armor)
                             THEN Num(IF left < 0 THEN 0 ELSE left)
                             ELSE @,
                  !.health = health,
                  !.isDead = IF health < 0 THEN TRUE ELSE @]

\* addDamage(damage) that leaves the armor below 0 when its share exceeds it
addDamage_unclampedArmor(c, damage) ==
    LET armorDamage == (damage * ARMOR_NUM) \div ARMOR_DEN
        left        == Val(c.armor) - armorDamage
        hit         == IF GtZero(c.armor)
                       THEN (damage - armorDamage) - (IF left < 0 THEN left ELSE 0)
                       ELSE damage
        health      == c.health - hit
    IN  [c EXCEPT !.armor  = IF GtZero(c.armor) THEN Num(left) ELSE @,
                  !.health = health,
                  !.isDead = IF health <= 0 THEN TRUE ELSE @]

\* addDamage(damage)
addDamage(c, damage) ==
    LET armorDamage == (damage * ARMOR_NUM) \div ARMOR_DEN
        \* this.armor after  this.armor -= armorDamage
        left        == Val(c.armor) - armorDamage
        \* damage after  damage -= armorDamage  and, if armor < 0,  damage -= this.armor
        hit         == IF GtZero(c.armor)
                       THEN (damage - armorDamage) - (IF left < 0 THEN left ELSE 0)
                       ELSE damage
        health      == c.health - hit
    IN  [c EXCEPT !.armor  = IF GtZero(c.armor)
                             THEN Num(IF left < 0 THEN 0 ELSE left)
                             ELSE @,
                  !.health = health,
                  !.isDead = IF health <= 0 THEN TRUE ELSE @]

\* addHealth(health)
addHealth(c, health) ==
    LET h == c.health + health
    IN  [c EXCEPT !.health = IF h > c.maxHealth /\ c.maxHealth > 0
                             THEN c.maxHealth ELSE h]

\* addArmor(armor) that never caps
addArmor_uncapped(c, armor) ==
    IF NotNullish(c.armor) /\ IsNum(c.armor)
    THEN [c EXCEPT !.armor = Num(Val(c.armor) + armor)]
    ELSE c

\* addArmor(armor)
addArmor(c, armor) ==
    IF NotNullish(c.armor) /\ IsNum(c.armor)
    THEN LET a == Val(c.armor) + armor
         IN  [c EXCEPT !.armor = IF IsNum(c.maxArmor) /\ a > Val(c.maxArmor)
                                 THEN c.maxArmor ELSE Num(a)]
    ELSE c

\* the amounts of damage, health and armor the model applies, in whole points
Amounts == {0, 1, 30, 90}

\* the options of the characters of the damage model
DamageOptions ==
    { [NoOptions EXCEPT !.health = h, !.armor = a, !.maxArmor = m] :
        h \in {Undefined, Num(0), Num(Points(60))},
        a \in {Undefined, Null, Num(0), Num(Points(30)), Num(Points(60))},
        m \in {Undefined, Num(Points(70))} }

\* a character as constructed, with no call made yet
Fresh == Character(<<>>, NoOptions)
Idle == [at |-> "idle"]
NoCall == [op |-> "new"]

InitDamage ==
    /\ ch \in { Character(<<TRUE>>, o) : o \in DamageOptions }
    /\ last = NoCall
    /\ pc = Idle
    /\ peer = Fresh
    /\ calls = 0
    /\ world = FlatWorld
    /\ jumps = 0
    /\ statics = Statics

\* one more call, within the bound
Called == calls < MaxCalls /\ calls' = calls + 1

AddDamage ==
    \E d \in Amounts :
        /\ pc = Idle /\ Called
        /\ ch' = addDamage(ch, Points(d))
        /\ last' = [op |-> "addDamage", arg |-> Points(d), before |-> ch]
        /\ UNCHANGED <<pc, peer, world, jumps, statics>>

AddHealth ==
    \E h \in Amounts :
        /\ pc = Idle /\ Called
        /\ ch' = addHealth(ch, Points(h))
        /\ last' = [op |-> "addHealth", arg |-> Points(h), before |-> ch]
        /\ UNCHANGED <<pc, peer, world, jumps, statics>>

AddArmor ==
    \E a \in Amounts :
        /\ pc = Idle /\ Called
        /\ ch' = addArmor(ch, Points(a))
        /\ last' = [op |-> "addArmor", arg |-> Points(a), before |-> ch]
        /\ UNCHANGED <<pc, peer, world, jumps, statics>>

NextDamage == AddDamage \/ AddHealth \/ AddArmor

SpecDamage == InitDamage /\ [][NextDamage]_vars

\* the armor as a number: an absent armor counts for 0
ArmorOf(c) == IF IsNum(c.armor) THEN Val(c.armor) ELSE 0

\* C1: damage conservation. After every addDamage(d) with d >= 0 on a
\* character with health >= 0 and an armor absent or >= 0, the health lost
\* plus the armor lost equals d (an absent armor counts for a change of 0).
C1_DamageConservation ==
    (/\ last.op = "addDamage"
     /\ last.arg >= 0
     /\ last.before.health >= 0
     /\ ArmorOf(last.before) >= 0)
    => (last.before.health - ch.health)
         + (ArmorOf(last.before) - ArmorOf(ch)) = last.arg

\* an addDamage whose armor share exceeded the armor left: the shortfall
\* went to the health
C1_Witness ==
    /\ last.op = "addDamage"
    /\ last.before.health >= 0
    /\ GtZero(last.before.armor)
    /\ Val(last.before.armor) < (last.arg * ARMOR_NUM) \div ARMOR_DEN
    /\ ch.armor = Num(0)
    /\ last.before.health - ch.health = last.arg - Val(last.before.armor)

\* C15: after a construction with health >= 0 and any sequence of
\* addDamage and addHealth calls with amounts >= 0, health >= 0.
C15_HealthNonNegative == ch.health >= 0

\* C16: the armor of a character that has one is >= 0 after any sequence
\* of addDamage and addArmor calls with amounts >= 0; addDamage in
\* particular leaves no negative armor when the armor cannot absorb its
\* 2/3 share.
C16_ArmorNonNegative == IsNum(ch.armor) => Val(ch.armor) >= 0

\* a damage of 90 on an armor of 30: the share of the armor is 60, and the
\* armor is left at 0
C16_Witness ==
    /\ last.op = "addDamage"
    /\ last.arg = Points(90)
    /\ last.before.armor = Num(Points(30))
    /\ ch.armor = Num(0)

\* C19: addArmor(a) changes nothing when the armor is absent; when it is
\* present it leaves armor + a, capped at maxArmor when maxArmor is set and
\* uncapped when it is absent; and it never changes the health.
C19_AddArmor ==
    last.op = "addArmor" =>
        LET sum == ArmorOf(last.before) + last.arg
        IN  /\ ch.health = last.before.health
            /\ IF ~IsNum(last.before.armor)
               THEN ch = last.before
               ELSE ch.armor =
                      Num(IF IsNum(ch.maxArmor) /\ sum > Val(ch.maxArmor)
                          THEN Val(ch.maxArmor) ELSE sum)

\* an armor of 60 under a maximum of 70 is given 30 and is left at 70
C19_Witness ==
    /\ last.op = "addArmor"
    /\ last.before.armor = Num(Points(60))
    /\ last.arg = Points(30)
    /\ ch.maxArmor = Num(Points(70))
    /\ ch.armor = Num(Points(70))

\* the options of the characters of the healing model: a maximum of health
\* that is absent, 0, negative or positive, under or over the health
HealOptions ==
    { [NoOptions EXCEPT !.health = h, !.maxHealth = m] :
        h \in {Undefined, Num(Points(60))},
        m \in {Undefined, Num(0), Num(Points(-1)), Num(Points(70)),
               Num(Points(50))} }

\* a character as constructed; last keeps the options it was made with
InitHeal ==
    /\ \E o \in HealOptions :
           /\ ch = Character(<<TRUE>>, o)
           /\ last = [op |-> "new", options |-> o]
    /\ pc = Idle
    /\ peer = Fresh
    /\ calls = 0
    /\ world = FlatWorld
    /\ jumps = 0
    /\ statics = Statics

\* addHealth(h)
Heal ==
    \E h \in Amounts :
        /\ pc = Idle /\ Called
        /\ ch' = addHealth(ch, Points(h))
        /\ last' = [op |-> "addHealth", arg |-> Points(h), before |-> ch,
                     options |-> last.options]
        /\ UNCHANGED <<pc, peer, world, jumps, statics>>

\* addDamage(d)
Hurt ==
    \E d \in Amounts :
        /\ pc = Idle /\ Called
        /\ ch' = addDamage(ch, Points(d))
        /\ last' = [op |-> "addDamage", arg |-> Points(d), before |-> ch,
                     options |-> last.options]
        /\ UNCHANGED <<pc, peer, world, jumps, statics>>

NextHeal == Heal \/ Hurt

SpecHeal == InitHeal /\ [][NextHeal]_vars

\* C18: the healing cap: for a character created with a positive
\* maxHealth, addHealth(a) leaves health = min(health + a, maxHealth); for
\* a character created with a non-positive or absent maxHealth, it leaves
\* health = health + a, with no cap.
C18_HealingCap ==
    last.op = "addHealth" =>
        LET sum == last.before.health + last.arg
            max == last.options.maxHealth
        IN  ch.health = IF GtZero(max) /\ sum > Val(max) THEN Val(max) ELSE sum

(***************************************************************************)
(* Weapon selection                                                        *)
(*                                                                         *)
(* The slots of this.weapons are numbered from 0 as in the source; slot j  *)
(* is weapons[j + 1] of the sequence.  The loop of setWeapon is modelled   *)
(* one iteration at a time, since it need not end.                         *)
(***************************************************************************)
\* this.weapons[j] != null
Populated(c, j) == j \in 0 .. Len(c.weapons) - 1 /\ c.weapons[j + 1]

\* a number as an operand of += : null counts for 0
ToNumber(v) == IF IsNum(v) THEN Val(v) ELSE 0

\* the guard of setWeapon's first line: nothing to do
setWeaponReturnsAtOnce(c, index) ==
    Len(c.weapons) = 0 \/ ~TypeofNumber(index)

\* -1 < index && index < this.weapons.length
InBounds(c, index) ==
    IsNum(index) /\ -1 < Val(index) /\ Val(index) < Len(c.weapons)

\* the character after setWeapon(index) with index in bounds
setWeaponDirect(c, index) ==
    [c EXCEPT !.currentWeapon = IF Populated(c, Val(index)) THEN index ELSE @]

\* var incre = index === -1 ? -1 : +1
Incre(index) == IF index = Num(-1) THEN -1 ELSE 1

\* the loop's condition  i < this.weapons.length || stop
LoopCondition(c, l) == l.i < Len(c.weapons) \/ l.stop

\* newWeap after one iteration: stepped and wrapped at both ends
StepWeapon(c, newWeap, incre) ==
    LET n == newWeap + incre
    IN  IF n >= Len(c.weapons) THEN 0
        ELSE IF n < 0 THEN Len(c.weapons) - 1
        ELSE n

\* the loop's variables after one iteration.  i only matters through
\* i < this.weapons.length: past the length it is kept up to its parity,
\* so that every iteration is a step.  visits counts the slots visited, up
\* to one more than a full cycle.
LoopBody(c, l) ==
    LET n == StepWeapon(c, l.newWeap, l.incre)
    IN  [l EXCEPT !.newWeap = n,
                  !.stop    = IF Populated(c, n) THEN TRUE ELSE @,
                  !.i       = IF @ <= Len(c.weapons) THEN @ + 1 ELSE Len(c.weapons),
                  !.visits  = IF @ <= Len(c.weapons) THEN @ + 1 ELSE @]

\* the weapon lists given to the constructor: sparse and all-absent ones too
WeaponLists == UNION { [1 .. n -> BOOLEAN] : n \in 0 .. MaxWeapons }

\* the values of index: no request, previous, next, slots in and out of bounds
Indexes == {Undefined, NaN} \cup { Num(k) : k \in -2 .. MaxWeapons + 1 }

InitWeapon ==
    /\ ch \in { Character(w, NoOptions) : w \in WeaponLists }
    /\ last = NoCall
    /\ pc = Idle
    /\ peer = Fresh
    /\ calls = 0
    /\ world = FlatWorld
    /\ jumps = 0
    /\ statics = Statics

\* setWeapon(index) that returns without entering the loop
SetWeaponReturn ==
    \E index \in Indexes :
        /\ pc = Idle /\ Called
        /\ setWeaponReturnsAtOnce(ch, index) \/ InBounds(ch, index)
        /\ ch' = IF setWeaponReturnsAtOnce(ch, index) THEN ch
                  ELSE setWeaponDirect(ch, index)
        /\ last' = [op |-> "setWeapon", arg |-> index, before |-> ch]
        /\ UNCHANGED <<pc, peer, world, jumps, statics>>

\* setWeapon(index) with a relative request: the loop is entered
SetWeaponEnter ==
    \E index \in Indexes :
        /\ pc = Idle /\ Called
        /\ ~setWeaponReturnsAtOnce(ch, index) /\ ~InBounds(ch, index)
        /\ pc' = [at |-> "setWeapon", index |-> index, before |-> ch,
                  newWeap |-> ToNumber(ch.currentWeapon),
                  incre |-> Incre(index),
                  i |-> 0, stop |-> FALSE, visits |-> 0]
        /\ UNCHANGED <<ch, last, peer, world, jumps, statics>>

\* one iteration of the loop
SetWeaponLoop ==
    /\ pc.at = "setWeapon"
    /\ LoopCondition(ch, pc)
    /\ pc' = LoopBody(ch, pc)
    /\ UNCHANGED <<ch, last, peer, calls, world, jumps, statics>>

\* the loop is left: this.currentWeapon = newWeap
SetWeaponExit ==
    /\ pc.at = "setWeapon"
    /\ ~LoopCondition(ch, pc)
    /\ ch' = [ch EXCEPT !.currentWeapon = Num(pc.newWeap)]
    /\ last' = [op |-> "setWeapon", arg |-> pc.index, before |-> pc.before]
    /\ pc' = Idle
    /\ UNCHANGED <<peer, calls, world, jumps, statics>>

NextWeapon ==
    SetWeaponReturn \/ SetWeaponEnter \/ SetWeaponLoop \/ SetWeaponExit

SpecWeapon == InitWeapon /\ [][NextWeapon]_vars

\* the code keeps running the loop it has entered
SpecWeaponFair ==
    SpecWeapon /\ WF_vars(SetWeaponLoop) /\ WF_vars(SetWeaponExit)

\* some slot of the list is populated
SomePopulated(c) == \E j \in 0 .. Len(c.weapons) - 1 : Populated(c, j)

\* the slot k steps from slot j in direction incre, cyclically
Around(c, j, incre, k) == (j + incre * k) % Len(c.weapons)

\* the first populated slot met walking from slot j in direction incre
FirstPopulated(c, j, incre) ==
    LET k == CHOOSE k \in 1 .. Len(c.weapons) :
                 /\ Populated(c, Around(c, j, incre, k))
                 /\ \A m \in 1 .. k - 1 : ~Populated(c, Around(c, j, incre, m))
    IN  Around(c, j, incre, k)

\* C2: a relative selection ends within one full cycle: on a non-empty
\* list, for an index outside [0, weapons.length), setWeapon(index) returns
\* after visiting at most weapons.length slots.
C2_EndsWithinOneCycle ==
    pc.at = "setWeapon" => pc.visits <= Len(ch.weapons)

\* C3: a relative selection lands on the nearest populated slot: on a list
\* with a populated slot, setWeapon(-1) ends with currentWeapon on the first
\* populated slot met walking backwards from the current one, and
\* setWeapon(i) for any other out-of-range i on the first one met forwards.
C3_LandsOnNearestPopulated ==
    (pc.at = "setWeapon" /\ SomePopulated(ch))
    ~> ( /\ pc = Idle
         /\ last.op = "setWeapon"
         /\ SomePopulated(ch)
         /\ ch.currentWeapon =
              Num(FirstPopulated(ch, ToNumber(last.before.currentWeapon),
                                 Incre(last.arg))) )

\* C4: currentWeapon is null or the index of a populated slot, from the
\* construction on and after any sequence of setWeapon calls.
C4_CurrentWeaponPopulated ==
    ch.currentWeapon = Null
    \/ (IsNum(ch.currentWeapon) /\ Populated(ch, Val(ch.currentWeapon)))

(***************************************************************************)
(* Crouching                                                               *)
(***************************************************************************)
\* Boolean values of fields that may be undefined
Bool(b) == <<"boolean", b>>
IsTrue(v) == v = Bool(TRUE)

\* the ceiling rays cast by updateCrounch: the probes are tried in order
\* as long as canGetUp is not false.  ceiling[i] is result.hasHit of probe i.
RECURSIVE CeilingScan(_, _)
CeilingScan(ceiling, i) ==
    IF i > Cardinality(Dimensions.vertices) THEN [canGetUp |-> TRUE, rays |-> i - 1]
    ELSE IF ceiling[i] THEN [canGetUp |-> FALSE, rays |-> i]
    ELSE CeilingScan(ceiling, i + 1)

\* canGetUp and the number of rays cast, before the shape is changed
CanGetUp(c, crounch, ceiling) ==
    IF crounch THEN [canGetUp |-> FALSE, rays |-> 0]
    ELSE IF c.isCrounched THEN CeilingScan(ceiling, 1)
    ELSE [canGetUp |-> TRUE, rays |-> 0]

\* updateCrounch(crounch), the ceiling probes answering ceiling
updateCrounch(c, crounch, ceiling) ==
    LET up   == CanGetUp(c, crounch, ceiling).canGetUp
        inc  == CROUNCH_INCREMENT
        c1   == [c EXCEPT !.isCrounched = IF crounch THEN TRUE ELSE @]
        more == c.halfExtentsY + inc * 2
        less == c.halfExtentsY - inc * 2
    IN  IF up
        THEN IF c.halfExtentsY * 2 < c.bodyHeight
             THEN IF more * 2 >= c.bodyHeight
                  THEN [c1 EXCEPT !.halfExtentsY = c.bodyHeight \div 2,
                                  !.shapeOffsetY = -(c.bodyHeight \div 2),
                                  !.isCrounched  = FALSE]
                  ELSE [c1 EXCEPT !.halfExtentsY = more,
                                  !.shapeOffsetY = @ - inc]
             ELSE c1
        ELSE IF c.halfExtentsY * 2 > c.bodyCrounched
             THEN IF less * 2 < c.bodyCrounched
                  THEN [c1 EXCEPT !.halfExtentsY = c.bodyCrounched \div 2,
                                  !.shapeOffsetY = -(c.bodyCrounched \div 2)]
                  ELSE [c1 EXCEPT !.halfExtentsY = less,
                                  !.shapeOffsetY = @ + inc]
             ELSE c1

\* the answers of the five ceiling probes
Ceilings == [Vertices -> BOOLEAN]

\* the body heights given to the constructor, in the unit of lengths: the defaults,
\* and heights whose halves the increments do not hit
CrouchOptions ==
    { [NoOptions EXCEPT !.bodyHeight = bh, !.bodyCrounched = bc] :
        bh \in {Undefined, Num(50)}, bc \in {Undefined, Num(22)} }

InitCrouch ==
    /\ ch \in { Character(<<TRUE>>, o) : o \in CrouchOptions }
    /\ last = NoCall
    /\ pc = Idle
    /\ peer = Fresh
    /\ calls = 0
    /\ world = FlatWorld
    /\ jumps = 0
    /\ statics = Statics

UpdateCrounch ==
    \E crounch \in BOOLEAN, ceiling \in Ceilings :
        /\ pc = Idle
        /\ ch' = updateCrounch(ch, crounch, ceiling)
        /\ last' = [op |-> "updateCrounch", crounch |-> crounch,
                    ceiling |-> ceiling, before |-> ch,
                    rays |-> CanGetUp(ch, crounch, ceiling).rays]
        /\ UNCHANGED <<pc, peer, calls, world, jumps, statics>>

NextCrouch == UpdateCrounch

SpecCrouch == InitCrouch /\ [][NextCrouch]_vars

\* C5: the body collider's vertical half-extent lies in
\* [bodyCrounched/2, bodyHeight/2] in every reachable state, from the
\* freshly constructed character on and after any updateCrounch ticks.
C5_HalfExtentInRange ==
    /\ ch.bodyCrounched <= ch.halfExtentsY * 2
    /\ ch.halfExtentsY * 2 <= ch.bodyHeight

(***************************************************************************)
(* Ground probing                                                          *)
(*                                                                         *)
(* The world answers each downward ray with a ray result: no hit, or the   *)
(* body hit and the angle (in degrees) between the hit normal and the up   *)
(* axis.                                                                   *)
(***************************************************************************)
\* updatePlatform(): the record of the platform is refreshed
updatePlatform(c) ==
    IF c.platform # Null
    THEN [c EXCEPT !.platform =
             Obj([body |-> Val(@).body, globalPos |-> c.position])]
    ELSE c

\* Walkable that takes a slope of exactly STEEP_SLOPE for ground
Walkable_inclusive(result) == result.hasHit /\ result.angle <= STEEP_SLOPE

\* the hit of a probe counts as ground:  angle < Character.STEEP_SLOPE
Walkable(result) == result.hasHit /\ result.angle < STEEP_SLOPE

\* what the probe loop does from probe i on: the character it leaves, the
\* rays cast in all, and whether an error was thrown.  platformBound tells
\* whether the free identifier `platform` of the source is bound in the
\* global scope (to something that is not the record of this character);
\* when it is not, reading it throws a ReferenceError.
RECURSIVE GroundScan(_, _, _, _)
GroundScan(c, w, platformBound, i) ==
    IF i > Cardinality(Dimensions.vertices)
    THEN [c |-> [c EXCEPT !.platform = Null], rays |-> i - 1, threw |-> FALSE]
    ELSE IF Walkable(w[i])
    THEN LET g == [c EXCEPT !.isGrounded = Bool(TRUE)]
         IN  IF IsKinematic(w[i].body)
             THEN IF platformBound
                  THEN [c |-> updatePlatform(
                                [g EXCEPT !.platform =
                                    Obj([body |-> w[i].body])]),
                        rays |-> i, threw |-> FALSE]
                  ELSE [c |-> g, rays |-> i, threw |-> TRUE]
             ELSE [c |-> [g EXCEPT !.platform = Null],
                   rays |-> i, threw |-> FALSE]
    ELSE GroundScan(c, w, platformBound, i + 1)

\* updateGround()
updateGround(c, w, platformBound) ==
    GroundScan([c EXCEPT !.isGrounded = Bool(FALSE)], w, platformBound, 1)

InitGround ==
    /\ ch = Character(<<TRUE>>, NoOptions)
    /\ last = NoCall
    /\ pc = Idle
    /\ peer = Fresh
    /\ calls = 0
    /\ world \in Worlds
    /\ jumps = 0
    /\ statics = Statics

UpdateGround ==
    \E platformBound \in BOOLEAN :
        LET r == updateGround(ch, world, platformBound)
        IN  /\ pc = Idle
            /\ ch' = r.c
            /\ last' = [op |-> "updateGround", world |-> world,
                        rays |-> r.rays, threw |-> r.threw]
            /\ UNCHANGED <<pc, peer, calls, world, jumps, statics>>

\* the physics step: the bodies move, and a probe meets something else
PhysicsMovesWorld ==
    \E i \in Vertices, r \in RayResults :
        /\ pc = Idle
        /\ world' = [world EXCEPT ![i] = r]
        /\ last' = [op |-> "physics"]
        /\ UNCHANGED <<ch, pc, peer, calls, jumps, statics>>

NextGround == UpdateGround \/ PhysicsMovesWorld

SpecGround == InitGround /\ [][NextGround]_vars

\* the probes of a world that hit a walkable surface
WalkableProbes(w) ==
    { i \in Vertices : w[i].hasHit /\ w[i].angle < STEEP_SLOPE }

AXIS_DEN == 100

\* a / b rounded towards zero, for b > 0
Quotient(a, b) == IF a >= 0 THEN a \div b ELSE -((-a) \div b)

\* Math.sqrt, rounded down
Sqrt(n) == CHOOSE r \in 0 .. n : r * r <= n /\ (r + 1) * (r + 1) > n

\* Math.cos and Math.sin of an angle in quarter turns
Cos(theta) == CASE theta % 4 = 0 -> 1 [] theta % 4 = 2 -> -1 [] OTHER -> 0
Sin(theta) == CASE theta % 4 = 1 -> 1 [] theta % 4 = 3 -> -1 [] OTHER -> 0

\* the axis used without being normalized
ClampedAxis_unclamped(axis) ==
    IF axis = Undefined THEN [x |-> 0, y |-> 0] ELSE Val(axis)

\* the axis after  axis = axis || {x: 0, y: 0}  and the normalization
ClampedAxis(axis) ==
    LET a         == IF axis = Undefined THEN [x |-> 0, y |-> 0] ELSE Val(axis)
        sqrLength == a.x * a.x + a.y * a.y
        length    == Sqrt(sqrLength)
    IN  IF sqrLength > AXIS_DEN * AXIS_DEN
        THEN [x |-> Quotient(a.x * AXIS_DEN, length),
              y |-> Quotient(a.y * AXIS_DEN, length)]
        ELSE a

\* var speed = this.isCrounched ? this.crounchedSpeed : this.moveSpeed;
\* the constructor sets crounchSpeed and nothing sets crounchedSpeed
Speed(c) == IF c.isCrounched THEN Undefined ELSE Num(c.moveSpeed)

\* a product with the speed: NaN when the speed is undefined
TimesSpeed(n, speed) == IF IsNum(speed) THEN Num(n * Val(speed)) ELSE NaN

\* the first of the two instead of their average
Average_replace(a, b) == a

\* (a + b) * 0.5, NaN when either is
Average(a, b) ==
    IF IsNum(a) /\ IsNum(b) THEN Num(Quotient(Val(a) + Val(b), 2)) ELSE NaN

\* this.jumpTimer after the press and the decrement
TimerAfterPress(c, jump) ==
    LET t == IF jump THEN JUMP_TIMER ELSE c.jumpTimer
    IN  IF t > 0 THEN t - 1 ELSE t

\* the tick applies the jump: grounded, and the timer still positive
JumpApplied(c, jump) == IsTrue(c.isGrounded) /\ TimerAfterPress(c, jump) > 0

\* the timer left running after a jump
TimerAfterJump_kept(c, jump) == TimerAfterPress(c, jump)

\* this.jumpTimer at the end of the tick: reset when the jump is applied
TimerAfterJump(c, jump) ==
    IF IsTrue(c.isGrounded) /\ TimerAfterPress(c, jump) > 0
    THEN 0
    ELSE TimerAfterPress(c, jump)

\* updateMove that starts the velocity in the air from a vertical velocity
\* of 0
updateMove_fallLost(c, axis, jump) ==
    LET a     == ClampedAxis(axis)
        theta == c.orientation.x
        speed == Speed(c)
        x     == TimesSpeed(a.x * Cos(theta) - a.y * Sin(theta), speed)
        z     == TimesSpeed(-a.x * Sin(theta) - a.y * Cos(theta), speed)
    IN  [c EXCEPT
           !.jumpTimer = TimerAfterJump(c, jump),
           !.velocity  =
               IF IsTrue(c.isGrounded)
               THEN [x |-> x, z |-> z,
                     y |-> IF TimerAfterPress(c, jump) > 0
                           THEN Num(c.jumpForce * AXIS_DEN) ELSE @.y]
               ELSE [x |-> Average(x, @.x), z |-> Average(z, @.z),
                     y |-> Num(0)]]

\* updateMove(axis, jump)
updateMove(c, axis, jump) ==
    LET a     == ClampedAxis(axis)
        theta == c.orientation.x
        speed == Speed(c)
        x     == TimesSpeed(a.x * Cos(theta) - a.y * Sin(theta), speed)
        z     == TimesSpeed(-a.x * Sin(theta) - a.y * Cos(theta), speed)
    IN  [c EXCEPT
           !.jumpTimer = TimerAfterJump(c, jump),
           !.velocity  =
               IF IsTrue(c.isGrounded)
               THEN [x |-> x, z |-> z,
                     y |-> IF TimerAfterPress(c, jump) > 0
                           THEN Num(c.jumpForce * AXIS_DEN) ELSE @.y]
               ELSE [x |-> Average(x, @.x), z |-> Average(z, @.z), y |-> @.y]]

\* the air under every probe
EmptyWorld == [i \in Vertices |-> NoHit]

\* the axes of the ticks of the jump model: the character stands still
MoveAxes == {Undefined, Obj([x |-> 0, y |-> 0])}

InitMove ==
    /\ ch = Character(<<TRUE>>, NoOptions)
    /\ last = NoCall
    /\ pc = Idle
    /\ peer = Fresh
    /\ calls = 0
    /\ world \in {FlatWorld, EmptyWorld}
    /\ jumps = 0
    /\ statics = Statics

\* updateMove(axis, jump) on the axes of axes
UpdateMoveOn(axes) ==
    \E axis \in axes, jump \in BOOLEAN :
        /\ pc = Idle
        /\ ch' = updateMove(ch, axis, jump)
        /\ last' = [op |-> "updateMove", axis |-> axis, jump |-> jump,
                    before |-> ch, jumped |-> JumpApplied(ch, jump)]
        /\ jumps' = IF JumpApplied(ch, jump)
                     THEN (IF jump THEN 1 ELSE IF jumps < 2 THEN jumps + 1 ELSE jumps)
                     ELSE (IF jump THEN 0 ELSE jumps)
        /\ UNCHANGED <<pc, peer, calls, world, statics>>

UpdateMove == UpdateMoveOn(MoveAxes)

\* updateGround() in the world as it is
GroundCheck ==
    \E platformBound \in BOOLEAN :
        LET r == updateGround(ch, world, platformBound)
        IN  /\ pc = Idle
            /\ ch' = r.c
            /\ last' = [op |-> "updateGround", world |-> world,
                        rays |-> r.rays, threw |-> r.threw]
            /\ UNCHANGED <<pc, peer, calls, world, jumps, statics>>

\* the physics step: the character leaves or meets the ground, and gravity
\* or the contact changes its vertical velocity
PhysicsStep ==
    \E w \in {FlatWorld, EmptyWorld}, vy \in {0, -5 * AXIS_DEN} :
        /\ pc = Idle
        /\ world' = w
        /\ ch' = [ch EXCEPT !.velocity = [@ EXCEPT !.y = Num(vy)]]
        /\ last' = [op |-> "physics"]
        /\ UNCHANGED <<pc, peer, calls, jumps, statics>>

NextMove == UpdateMove \/ GroundCheck \/ PhysicsStep

SpecMove == InitMove /\ [][NextMove]_vars

\* C6: a jump fires at most once per press: between two ticks whose jump
\* input is true the vertical velocity is set to jumpForce in at most one
\* tick, and a tick entered with jumpTimer = 0 and no jump press never sets
\* the vertical velocity to jumpForce.
C6_JumpOncePerPress ==
    /\ jumps <= 1
    /\ (last.op = "updateMove" /\ last.before.jumpTimer = 0 /\ ~last.jump)
         => (~last.jumped /\ ch.velocity.y = last.before.velocity.y)

\* the press came while airborne and the jump fired in a later tick, on
\* grounding: the velocity is the jump force and the timer is back at 0
C6_Witness ==
    /\ last.op = "updateMove"
    /\ ~last.jump /\ last.jumped
    /\ last.before.jumpTimer > 1 /\ last.before.jumpTimer < JUMP_TIMER - 1
    /\ jumps = 1
    /\ ch.jumpTimer = 0
    /\ ch.velocity.y = Num(ch.jumpForce * AXIS_DEN)

(***************************************************************************)
(* The axis of updateMove, on characters in the states a tick finds them   *)
(***************************************************************************)
\* the tolerance of the fixed-point arithmetic, in 1/AXIS_DEN
AxisTol == 2

\* the components of the axes: inside, on and outside the unit circle
AxisValues ==
    {-2 * AXIS_DEN, -AXIS_DEN, -(AXIS_DEN \div 2), 0, AXIS_DEN \div 2,
     (3 * AXIS_DEN) \div 5, (4 * AXIS_DEN) \div 5, AXIS_DEN,
     (3 * AXIS_DEN) \div 2, 3 * AXIS_DEN}

Axes == {Undefined} \cup { Obj([x |-> x, y |-> y]) : x, y \in AxisValues }

\* a character that looks in direction theta, on the ground or in the air,
\* standing or crouched
InitAxis ==
    /\ \E theta \in -3 .. 3, grounded, crounched \in BOOLEAN :
           ch = [Character(<<TRUE>>, NoOptions) EXCEPT
                    !.orientation = [@ EXCEPT !.x = theta],
                    !.isGrounded  = Bool(grounded),
                    !.isCrounched = crounched]
    /\ last = NoCall
    /\ pc = Idle
    /\ peer = Fresh
    /\ calls = 0
    /\ world = FlatWorld
    /\ jumps = 0
    /\ statics = Statics

\* updateMove(axis, jump) applied once to each character
MoveAlong == last = NoCall /\ UpdateMoveOn(Axes)

NextAxis == MoveAlong

SpecAxis == InitAxis /\ [][NextAxis]_vars

Abs(n) == IF n < 0 THEN -n ELSE n
SqrLength(v) == v.x * v.x + v.y * v.y

\* the axis given to updateMove, a missing one being the null vector
GivenAxis(axis) == IF axis = Undefined THEN [x |-> 0, y |-> 0] ELSE Val(axis)

\* the axis the velocity of a grounded, standing character was made with:
\* the velocity turned back by the orientation, per unit of speed
UsedAxis(c) ==
    LET theta == c.orientation.x
        vx    == Val(c.velocity.x)
        vz    == Val(c.velocity.z)
    IN  [x |-> (vx * Cos(theta) - vz * Sin(theta)) \div c.moveSpeed,
         y |-> (-vx * Sin(theta) - vz * Cos(theta)) \div c.moveSpeed]

\* C9: the axis is clamped to the unit circle: an axis a with |a|^2 > 1 is
\* used with magnitude 1 (within the tolerance of the arithmetic) and the
\* direction of a, an axis with |a|^2 <= 1 is used unchanged, and so the
\* horizontal speed produced on the ground never exceeds the movement speed.
C9_AxisClamped ==
    (last.op = "updateMove" /\ IsTrue(last.before.isGrounded)) =>
        LET a == GivenAxis(last.axis)
        IN  /\ ~ch.isCrounched =>
                 LET u == UsedAxis(ch)
                 IN  IF SqrLength(a) > AXIS_DEN * AXIS_DEN
                     THEN /\ (AXIS_DEN - AxisTol) * (AXIS_DEN - AxisTol) <= SqrLength(u)
                          /\ SqrLength(u) <= (AXIS_DEN + AxisTol) * (AXIS_DEN + AxisTol)
                          /\ a.x * u.x + a.y * u.y > 0
                          /\ Abs(a.x * u.y - a.y * u.x) <= AxisTol * (Abs(a.x) + Abs(a.y))
                     ELSE u = a
            /\ (IsNum(ch.velocity.x) /\ IsNum(ch.velocity.z)) =>
                 Val(ch.velocity.x) * Val(ch.velocity.x)
                   + Val(ch.velocity.z) * Val(ch.velocity.z)
                 <= (AXIS_DEN + AxisTol) * (AXIS_DEN + AxisTol)
                      * ch.moveSpeed * ch.moveSpeed

\* an axis three times too long, not along a coordinate axis, on a grounded
\* standing character that looks sideways: the velocity has the walk speed
C9_Witness ==
    /\ last.op = "updateMove"
    /\ IsTrue(last.before.isGrounded) /\ ~ch.isCrounched
    /\ ch.orientation.x = 1
    /\ GivenAxis(last.axis) = [x |-> 3 * AXIS_DEN, y |-> -2 * AXIS_DEN]
    /\ SqrLength(UsedAxis(ch)) > (AXIS_DEN - AxisTol) * (AXIS_DEN - AxisTol)
    /\ SqrLength(UsedAxis(ch)) <= (AXIS_DEN + AxisTol) * (AXIS_DEN + AxisTol)

(***************************************************************************)
(* The input and state codec                                               *)
(***************************************************************************)
Str(t) == <<"string", t>>
\* typeof v === "object" : objects, and null
TypeofObject(v) == v[1] \in {"object", "null"}
\* the field of an object, undefined when the object has none of that name
Field(obj, name) ==
    IF name \in DOMAIN Val(obj) THEN Val(obj)[name] ELSE Undefined

\* a % b of JavaScript: the remainder has the sign of a
Remainder(a, b) == IF a >= 0 THEN a % b ELSE -((-a) % b)

\* the low bits of the two's complement form of an integer, which are all
\* that a mask below 2^30 selects
LowBits(n) == n % (2 ^ 30)

\* a & b on naturals
RECURSIVE BitAnd(_, _)
BitAnd(a, b) ==
    IF a = 0 \/ b = 0 THEN 0
    ELSE (a % 2) * (b % 2) + 2 * BitAnd(a \div 2, b \div 2)

\* !!(v & mask) : a value that is no number counts for 0
MaskSet(v, mask) == IsNum(v) /\ BitAnd(LowBits(Val(v)), mask) # 0

\* the flags of an input in the order of their bits
FlagNames ==
    <<"jump", "crounch", "fire1", "fire2", "use", "reload", "melee", "zoom">>

\* masks with the last two flags on the same bit
FlagMask_repeated(name) ==
    CASE name = "jump"    -> 1
      [] name = "crounch" -> 2
      [] name = "fire1"   -> 4
      [] name = "fire2"   -> 8
      [] name = "use"     -> 16
      [] name = "reload"  -> 32
      [] name = "melee"   -> 64
      [] name = "zoom"    -> 64

\* the mask setFromInput reads each flag with
FlagMask(name) ==
    CASE name = "jump"    -> 1
      [] name = "crounch" -> 2
      [] name = "fire1"   -> 4
      [] name = "fire2"   -> 8
      [] name = "use"     -> 16
      [] name = "reload"  -> 32
      [] name = "melee"   -> 64
      [] name = "zoom"    -> 128

\* setFromInput(inputs): the character it leaves and whether it threw.
\* null is an object for typeof, and reading its field o throws.
setFromInput(c, inputs) ==
    IF ~TypeofObject(inputs) THEN [c |-> c, threw |-> FALSE]
    ELSE IF inputs = Null
    THEN [c |-> [c EXCEPT !.inputs = Obj(<<>>)], threw |-> TRUE]
    ELSE [c |-> [c EXCEPT !.inputs =
                   Obj([crounch |-> MaskSet(Field(inputs, "i"), FlagMask("crounch")),
                        fire1   |-> MaskSet(Field(inputs, "i"), FlagMask("fire1")),
                        fire2   |-> MaskSet(Field(inputs, "i"), FlagMask("fire2")),
                        jump    |-> MaskSet(Field(inputs, "i"), FlagMask("jump")),
                        melee   |-> MaskSet(Field(inputs, "i"), FlagMask("melee")),
                        movement    |-> Field(inputs, "m"),
                        orientation |-> Field(inputs, "o"),
                        reload  |-> MaskSet(Field(inputs, "i"), FlagMask("reload")),
                        use     |-> MaskSet(Field(inputs, "i"), FlagMask("use")),
                        weapon  |-> Field(inputs, "w"),
                        zoom    |-> MaskSet(Field(inputs, "i"), FlagMask("zoom"))])],
          threw |-> FALSE]

\* the integers sent as the flags: all the bytes, and integers with higher
\* bits and negative ones
FlagIntegers == (0 .. 255) \cup {-128, -1, 256, 257, 256 + 64 + 8, 511, 1000}

\* an input object with the flags i
InputObject(i) ==
    Obj([i |-> Num(i), m |-> Obj([x |-> 0, y |-> AXIS_DEN]),
         o |-> Obj([x |-> 1, y |-> 0]), w |-> Num(1)])

\* inputs that are no input object
MalformedInputs == {Undefined, Null, Num(3), Str("jump"), Bool(TRUE), Obj(<<>>)}

InitInput ==
    /\ ch = Character(<<TRUE>>, NoOptions)
    /\ last = NoCall
    /\ pc = Idle
    /\ peer = Fresh
    /\ calls = 0
    /\ world = FlatWorld
    /\ jumps = 0
    /\ statics = Statics

\* setFromInput(inputs)
SetFromInputOf(inputs) ==
    LET r == setFromInput(ch, inputs)
    IN  /\ pc = Idle
        /\ ch' = r.c
        /\ last' = [op |-> "setFromInput", arg |-> inputs, threw |-> r.threw,
                     changed |-> r.c # ch]
        /\ UNCHANGED <<pc, peer, calls, world, jumps, statics>>

SetFromInput == \E i \in FlagIntegers : SetFromInputOf(InputObject(i))

SetFromMalformedInput == \E inputs \in MalformedInputs : SetFromInputOf(inputs)

NextInput == SetFromInput \/ SetFromMalformedInput

SpecInput == InitInput /\ [][NextInput]_vars

\* bit k of an integer, in two's complement
BitOf(n, k) == (n \div (2 ^ k)) % 2

\* C10: for an object input with an integer field i, setFromInput sets the
\* flags jump, crouch, fire-primary, fire-secondary, use, reload, melee and
\* zoom to the bits 0..7 of i: flag k is true exactly when bit k of i is 1,
\* whatever the other bits and the bits above bit 7.
C10_FlagsAreBits ==
    (/\ last.op = "setFromInput"
     /\ last.arg[1] = "object"
     /\ IsNum(Field(last.arg, "i")))
    => \A k \in 0 .. 7 :
          Val(ch.inputs)[FlagNames[k + 1]] = (BitOf(Val(Field(last.arg, "i")), k) = 1)

\* an input above one byte with melee and fire2 set and zoom clear
C10_Witness ==
    /\ last.op = "setFromInput"
    /\ last.arg[1] = "object"
    /\ Field(last.arg, "i") = Num(256 + 64 + 8)
    /\ Val(ch.inputs).melee /\ Val(ch.inputs).fire2
    /\ ~Val(ch.inputs).zoom /\ ~Val(ch.inputs).jump

\* C11: a malformed input is dropped without effect: for an input that is
\* no input object (a number, a string, a boolean, undefined or null)
\* setFromInput raises no error and leaves the stored inputs and all the
\* rest of the character as they were.
C11_MalformedInputDropped ==
    (last.op = "setFromInput" /\ last.arg[1] # "object")
    => (~last.threw /\ ~last.changed)

(***************************************************************************)
(* The state snapshot: encoders and decoder                                *)
(***************************************************************************)
\* Math.PI*2 and Math.PI*0.5 in quarter turns
PI2 == 4
HPI == 1

\* getJSONFromState()
getJSONFromState(c) ==
    Obj([orient |-> Obj([x |-> c.orientation.x, y |-> c.orientation.y]),
         pos    |-> Obj(c.position),
         vel    |-> Obj(c.velocity),
         state  |-> Num((IF IsTrue(c.isGrounded) THEN 1 ELSE 0)
                        + (IF c.isCrounched THEN 2 ELSE 0)),
         weap   |-> c.currentWeapon])

\* getData()
getData(c) ==
    Obj([o |-> Obj(c.orientation),
         p |-> Obj(c.position),
         v |-> Obj(c.velocity),
         g |-> c.isGrounded,
         c |-> Bool(c.isCrounched)])

\* setLook(orientation) of the class that has setFromData: nothing is done
\* for a missing orientation
setLook(c, orientation) ==
    IF orientation[1] # "object" THEN c
    ELSE LET x == Remainder(Val(orientation).x, PI2)
             y == Remainder(Val(orientation).y, PI2)
         IN  [c EXCEPT !.orientation =
                 [x |-> x,
                  y |-> IF y > HPI THEN HPI ELSE IF y < -HPI THEN -HPI ELSE y]]

\* Util.isVector3(v): an object with the three coordinates
IsVector3(v) == v[1] = "object" /\ DOMAIN Val(v) = {"x", "y", "z"}

\* the state bits as setFromData reads them: data.i
StateBits(data) == Field(data, "i")

\* setFromData(data): the character it leaves and whether it threw.  null
\* is an object for typeof, and reading its field o throws.
setFromData(c, data) ==
    IF ~TypeofObject(data) THEN [c |-> c, threw |-> FALSE]
    ELSE IF data = Null THEN [c |-> c, threw |-> TRUE]
    ELSE LET c1 == setLook(c, Field(data, "o"))
             c2 == IF IsVector3(Field(data, "p"))
                   THEN [c1 EXCEPT !.position = Val(Field(data, "p"))] ELSE c1
             c3 == IF IsVector3(Field(data, "v"))
                   THEN [c2 EXCEPT !.velocity = Val(Field(data, "v"))] ELSE c2
             i  == StateBits(data)
         IN  [c |-> IF NotNullish(i)
                    THEN [c3 EXCEPT !.isGrounded  = Bool(MaskSet(i, 1)),
                                    !.isCrounched = MaskSet(i, 2)]
                    ELSE c3,
              threw |-> FALSE]

\* the characters whose state is encoded: anywhere, moving or not, looking
\* anywhere, on the ground or not, crouched or not
InitCodec ==
    /\ \E px, py \in {0, 7}, vx, vy \in {0, -3 * AXIS_DEN},
          ox \in {-3, 0, 2}, oy \in {-1, 0, 1},
          grounded \in {Undefined, Bool(FALSE), Bool(TRUE)},
          crounched \in BOOLEAN :
           ch = [Character(<<TRUE>>, NoOptions) EXCEPT
                    !.position    = [x |-> px, y |-> py, z |-> 0],
                    !.velocity    = [x |-> Num(vx), y |-> Num(vy), z |-> Num(0)],
                    !.orientation = [x |-> ox, y |-> oy],
                    !.isGrounded  = grounded,
                    !.isCrounched = crounched]
    /\ last = NoCall
    /\ pc = Idle
    /\ peer = Fresh
    /\ calls = 0
    /\ world = FlatWorld
    /\ jumps = 0
    /\ statics = Statics

\* the state is encoded by getData() and decoded into a fresh character
\* of the same dimensions
RoundTripData ==
    /\ pc = Idle
    /\ peer' = setFromData(Character(ch.weapons, NoOptions), getData(ch)).c
    /\ last' = [op |-> "roundTrip", encoder |-> "getData"]
    /\ UNCHANGED <<ch, pc, calls, world, jumps, statics>>

\* the same with getJSONFromState()
RoundTripState ==
    /\ pc = Idle
    /\ peer' = setFromData(Character(ch.weapons, NoOptions),
                            getJSONFromState(ch)).c
    /\ last' = [op |-> "roundTrip", encoder |-> "getJSONFromState"]
    /\ UNCHANGED <<ch, pc, calls, world, jumps, statics>>

\* a snapshot object with the orientation o, the position p, the velocity v
\* and the state bits 3 (grounded and crouched)
Snapshot(o, p, v) == Obj([i |-> Num(3), o |-> o, p |-> p, v |-> v])

\* a snapshot's orientation, position and velocity when they are well formed
GoodOrientation == Obj([x |-> 2, y |-> 1])
GoodPosition == Obj([x |-> 3, y |-> 9, z |-> 3])
GoodVelocity == Obj([x |-> Num(AXIS_DEN), y |-> Num(0), z |-> Num(AXIS_DEN)])

\* values that are no vector: missing, of another type, or without all the
\* coordinates.  An orientation is only ever missing: setLook tests
\* nothing else.
BadVectors == {Undefined, Null, Str("3,9,3"), Obj([x |-> 3])}

\* the snapshots that are no object, and the objects of which one of the
\* orientation, position and velocity is no vector
MalformedSnapshots ==
    {Undefined, Null, Num(3), Str("state"), Bool(TRUE)}
    \cup { Snapshot(o, GoodPosition, GoodVelocity) : o \in {Undefined, Null} }
    \cup { Snapshot(GoodOrientation, b, GoodVelocity) : b \in BadVectors }
    \cup { Snapshot(GoodOrientation, GoodPosition, b) : b \in BadVectors }

\* setFromData(data) with a malformed snapshot; peer is the character as
\* the call leaves it, ch the character as it was
SetFromMalformedData ==
    \E data \in MalformedSnapshots :
        LET r == setFromData(ch, data)
        IN  /\ pc = Idle
            /\ peer' = r.c
            /\ last' = [op |-> "setFromData", arg |-> data, threw |-> r.threw]
            /\ UNCHANGED <<ch, pc, calls, world, jumps, statics>>

NextCodec == RoundTripData \/ RoundTripState \/ SetFromMalformedData

SpecCodec == InitCodec /\ [][NextCodec]_vars

\* C7: the state round trip: the state encoded by getJSONFromState or
\* getData and decoded by setFromData into a fresh character of the same
\* dimensions leaves that character with the position, velocity,
\* orientation, grounded flag and crouched flag of the encoded character.
C7_StateRoundTrip ==
    last.op = "roundTrip" =>
        /\ peer.position = ch.position
        /\ peer.velocity = ch.velocity
        /\ peer.orientation = ch.orientation
        /\ IsTrue(peer.isGrounded) = IsTrue(ch.isGrounded)
        /\ peer.isCrounched = ch.isCrounched

\* a snapshot is well formed when it is an object whose orientation,
\* position and velocity are vectors
IsOrientation(v) == v[1] = "object" /\ DOMAIN Val(v) = {"x", "y"}
WellFormedSnapshot(data) ==
    /\ data[1] = "object"
    /\ IsOrientation(Field(data, "o"))
    /\ IsVector3(Field(data, "p"))
    /\ IsVector3(Field(data, "v"))

\* C12: a malformed state snapshot is skipped entirely: when setFromData
\* receives a non-object, or an object in which one of the orientation,
\* position and velocity is no vector, the orientation, position, velocity,
\* grounded flag and crouched flag of the character are unchanged and no
\* error is raised.
C12_MalformedSnapshotSkipped ==
    (last.op = "setFromData" /\ ~WellFormedSnapshot(last.arg)) =>
        /\ ~last.threw
        /\ peer.orientation = ch.orientation
        /\ peer.position = ch.position
        /\ peer.velocity = ch.velocity
        /\ peer.isGrounded = ch.isGrounded
        /\ peer.isCrounched = ch.isCrounched

(***************************************************************************)
(* The life of a character: the tick, death                                *)
(***************************************************************************)
\* the physics world a spawned character is in
ThisWorld == Obj([name |-> "world"])

\* a controller: the inputs it holds for the tick and whether its
\* reference to a character points at this character
Controller(inputs, linked) == Obj([inputs |-> inputs, character |-> linked])

\* this.player is the same object as this.controller
SameAsController == Str("this.controller")

\* die(): the character it leaves and whether it threw.  Reading a
\* property of undefined or null throws a TypeError.
die(c) ==
    IF c.world[1] # "object" THEN [c |-> c, threw |-> TRUE]
    ELSE LET removed == [c EXCEPT !.bodyInWorld = FALSE]
         IN  IF c.player = SameAsController /\ c.controller[1] = "object"
             THEN [c |-> [removed EXCEPT !.controller =
                             Obj([Val(@) EXCEPT !.character = FALSE])],
                   threw |-> FALSE]
             ELSE IF c.player[1] = "object"
             THEN [c |-> [removed EXCEPT !.player =
                             Obj([Val(@) EXCEPT !.character = FALSE])],
                   threw |-> FALSE]
             ELSE [c |-> removed, threw |-> TRUE]

\* setLook(orientation) of the class that has update(): the angles are
\* kept within a turn and the pitch within a quarter turn; an orientation
\* that is no object throws on the reading of its x
Character_setLook(c, orientation) ==
    IF orientation[1] # "object" THEN [c |-> c, threw |-> TRUE]
    ELSE LET y == Remainder(Val(orientation).y, PI2)
         IN  [c |-> [c EXCEPT !.orientation =
                        [x |-> Remainder(Val(orientation).x, PI2),
                         y |-> IF y > HPI THEN HPI
                               ELSE IF y < -HPI THEN -HPI ELSE y]],
              threw |-> FALSE]

\* the loop of setWeapon run to its end, when it has one
RECURSIVE LoopRun(_, _)
LoopRun(c, l) == IF LoopCondition(c, l) THEN LoopRun(c, LoopBody(c, l)) ELSE l

\* setWeapon(index) returns: the loop is not entered, or it meets no
\* populated slot
setWeaponEnds(c, index) ==
    setWeaponReturnsAtOnce(c, index) \/ InBounds(c, index) \/ ~SomePopulated(c)

\* setWeapon(index), for a call that returns
setWeapon(c, index) ==
    IF setWeaponReturnsAtOnce(c, index) THEN c
    ELSE IF InBounds(c, index) THEN setWeaponDirect(c, index)
    ELSE [c EXCEPT !.currentWeapon =
             Num(LoopRun(c, [newWeap |-> ToNumber(c.currentWeapon),
                             incre |-> Incre(index), i |-> 0,
                             stop |-> FALSE, visits |-> 0]).newWeap)]

\* the calls update() makes, in the order of its statements
UpdateSteps ==
    <<"setLook", "updateGround", "updateMove", "updateCrounch",
      "updatePlatform", "setWeapon">>

\* the call number k of update(), with the inputs of the controller, the
\* world w under the probes and the ceiling above them: the character it
\* leaves and whether it threw
UpdateStep(c, k, inputs, w, ceiling, platformBound) ==
    CASE UpdateSteps[k] = "setLook" ->
            Character_setLook(c, inputs.orientation)
      [] UpdateSteps[k] = "updateGround" ->
            LET r == updateGround(c, w, platformBound)
            IN  [c |-> r.c, threw |-> r.threw]
      [] UpdateSteps[k] = "updateMove" ->
            [c |-> updateMove(c, inputs.movement, inputs.jump), threw |-> FALSE]
      [] UpdateSteps[k] = "updateCrounch" ->
            [c |-> updateCrounch(c, inputs.crounch, ceiling), threw |-> FALSE]
      [] UpdateSteps[k] = "updatePlatform" ->
            [c |-> updatePlatform(c), threw |-> FALSE]
      [] UpdateSteps[k] = "setWeapon" ->
            [c |-> setWeapon(c, inputs.weapon), threw |-> FALSE]

\* the calls of update() from number k on; an error ends them
RECURSIVE UpdateFrom(_, _, _, _, _, _)
UpdateFrom(c, k, inputs, w, ceiling, platformBound) ==
    IF k > Len(UpdateSteps) THEN [c |-> c, threw |-> FALSE]
    ELSE LET r == UpdateStep(c, k, inputs, w, ceiling, platformBound)
         IN  IF r.threw THEN r
             ELSE UpdateFrom(r.c, k + 1, inputs, w, ceiling, platformBound)

\* var inputs = this.controller.inputs || null, when there is a controller
InputsOf(c) == Field(c.controller, "inputs")

\* update() does something: there is a controller and it holds inputs
UpdateRuns(c) == c.controller # Null /\ InputsOf(c)[1] = "object"

\* update()
update(c, w, ceiling, platformBound) ==
    IF UpdateRuns(c)
    THEN UpdateFrom(c, 1, Val(InputsOf(c)), w, ceiling, platformBound)
    ELSE [c |-> c, threw |-> FALSE]

\* no ceiling above the probes
NoCeiling == [i \in Vertices |-> FALSE]

\* the inputs of a tick: looking at orientation, standing still
TickInput(orientation, jump, crounch, weapon) ==
    Obj([crounch |-> crounch, jump |-> jump, movement |-> Undefined,
         orientation |-> orientation, weapon |-> weapon])

\* the orientation of the inputs: a quarter turn to the side
Sideways == Obj([x |-> 1, y |-> 0])

\* the inputs a controller holds for a tick: jumping or not, crouching or
\* not, asking for the second weapon; and inputs without an orientation
TickInputs ==
    { TickInput(Sideways, j, k, Undefined) : j \in BOOLEAN, k \in BOOLEAN }
    \cup { TickInput(Sideways, FALSE, FALSE, Num(1)),
            TickInput(Undefined, FALSE, FALSE, Undefined) }

\* what this.world and this.player are for a spawned character: the
\* constructor sets neither, the rest of the program may
SpawnedWorlds == {Undefined, ThisWorld}
SpawnedPlayers == {Undefined, SameAsController, Obj([character |-> TRUE])}

\* a spawned character: with two weapons, an armor, a controller that
\* points at it, and its body in the physics world
InitLife ==
    /\ \E w \in SpawnedWorlds, p \in SpawnedPlayers :
           ch = [Character(<<TRUE, TRUE>>,
                           [NoOptions EXCEPT !.health = Num(Points(60)),
                                             !.armor  = Num(Points(30))])
                   EXCEPT !.controller  = Controller(Null, TRUE),
                          !.world       = w,
                          !.player      = p,
                          !.bodyInWorld = TRUE]
    /\ last = NoCall
    /\ pc = Idle
    /\ peer = Fresh
    /\ calls = 0
    /\ world = FlatWorld
    /\ jumps = 0
    /\ statics = Statics

\* die().  peer keeps the character as the last die() left it
Die ==
    LET r == die(ch)
    IN  /\ pc = Idle /\ Called
        /\ ch' = r.c
        /\ peer' = r.c
        /\ last' = [op |-> "die", threw |-> r.threw, before |-> ch]
        /\ UNCHANGED <<pc, world, jumps, statics>>

\* the controller is given inputs, or none, and update() is called
Update ==
    \E inputs \in TickInputs \cup {Null} :
        LET c == [ch EXCEPT !.controller =
                     Obj([Val(@) EXCEPT !.inputs = inputs])]
            r == update(c, world, NoCeiling, FALSE)
        IN  /\ pc = Idle /\ Called
            /\ ch' = r.c
            /\ last' = [op |-> "update", threw |-> r.threw, before |-> ch]
            /\ UNCHANGED <<pc, peer, world, jumps, statics>>

NextLife ==
    Die \/ Update \/ SetWeaponReturn \/ AddDamage \/ AddHealth \/ AddArmor

SpecLife == InitLife /\ [][NextLife]_vars

\* C13: die() always completes, and afterwards the body of the character
\* is no longer in the physics world and the reference of the owning
\* controller to the character is cleared.
C13_DieCompletes ==
    last.op = "die" =>
        /\ ~last.threw
        /\ ~ch.bodyInWorld
        /\ ~Val(ch.controller).character

\* die() has been called on the character
DieCalled == peer # Fresh

\* C14: dead is terminal: once die() has been called, no later call of
\* update, setWeapon, addDamage, addHealth or addArmor changes a field of
\* the character: health, armor, velocity, collider shape, flags, current
\* weapon.
C14_DeadIsTerminal ==
    DieCalled =>
        /\ ch.health = peer.health
        /\ ch.armor = peer.armor
        /\ ch.velocity = peer.velocity
        /\ ch.halfExtentsY = peer.halfExtentsY
        /\ ch.shapeOffsetY = peer.shapeOffsetY
        /\ ch.isGrounded = peer.isGrounded
        /\ ch.isCrounched = peer.isCrounched
        /\ ch.isDead = peer.isDead
        /\ ch.currentWeapon = peer.currentWeapon

\* C17: the dead flag is set exactly by lethal damage and is terminal:
\* isDead is false after construction; an addDamage call sets it to true
\* if and only if the health is <= 0 after the call; once it is true no
\* addHealth, addArmor, addDamage or update call (nor any other call of the
\* model) sets it back to false; and addDamage does not remove the body
\* from the world.
C17_DeadFlag ==
    /\ last = NoCall => ~ch.isDead
    /\ last # NoCall => (last.before.isDead => ch.isDead)
    /\ last.op = "addDamage" =>
          /\ ch.health <= 0 => ch.isDead
          /\ ch.health > 0 => ch.isDead = last.before.isDead
          /\ ch.bodyInWorld = last.before.bodyInWorld
    /\ (last # NoCall /\ last.op # "addDamage") =>
          ch.isDead = last.before.isDead

\* the character was killed by damage, healed above 0 and then updated: it
\* is still dead, and its body is still in the world
C17_Witness ==
    /\ last.op = "update"
    /\ ~last.threw
    /\ ch.isDead
    /\ ch.health > 0
    /\ ch.bodyInWorld

(***************************************************************************)
(* update(), one call at a time                                            *)
(***************************************************************************)
\* a spawned character with two weapons and a controller
InitTick ==
    /\ ch = [Character(<<TRUE, TRUE>>, NoOptions)
               EXCEPT !.controller  = Controller(Null, TRUE),
                      !.bodyInWorld = TRUE]
    /\ last = NoCall
    /\ pc = Idle
    /\ peer = Fresh
    /\ calls = 0
    /\ world \in {FlatWorld, EmptyWorld}
    /\ jumps = 0
    /\ statics = Statics

\* the character whose controller holds inputs
WithInputs(c, inputs) ==
    [c EXCEPT !.controller = Obj([Val(@) EXCEPT !.inputs = inputs])]

\* update() is called with inputs in the controller: its first call is next
UpdateEnter ==
    \E inputs \in TickInputs :
        /\ pc = Idle /\ Called
        /\ ch' = WithInputs(ch, inputs)
        /\ UpdateRuns(ch')
        /\ pc' = [at |-> "update", k |-> 1, done |-> <<>>]
        /\ UNCHANGED <<last, peer, world, jumps, statics>>

\* update() is called without inputs in the controller: it calls nothing
UpdateWithoutInputs ==
    /\ pc = Idle /\ Called
    /\ ch' = WithInputs(ch, Null)
    /\ ~UpdateRuns(ch')
    /\ last' = [op |-> "update", done |-> <<>>, threw |-> FALSE]
    /\ UNCHANGED <<pc, peer, world, jumps, statics>>

\* the next call of update() is made; an error ends update()
UpdateCall ==
    /\ pc.at = "update"
    /\ pc.k <= Len(UpdateSteps)
    /\ LET r == UpdateStep(ch, pc.k, Val(InputsOf(ch)), world, NoCeiling, FALSE)
       IN  /\ ch' = r.c
           /\ IF r.threw
              THEN /\ pc' = Idle
                   /\ last' = [op |-> "update", done |-> pc.done, threw |-> TRUE]
              ELSE /\ pc' = [pc EXCEPT !.k = @ + 1,
                                       !.done = Append(@, UpdateSteps[pc.k])]
                   /\ UNCHANGED last
    /\ UNCHANGED <<peer, calls, world, jumps, statics>>

\* update() returns
UpdateReturn ==
    /\ pc.at = "update"
    /\ pc.k > Len(UpdateSteps)
    /\ pc' = Idle
    /\ last' = [op |-> "update", done |-> pc.done, threw |-> FALSE]
    /\ UNCHANGED <<ch, peer, calls, world, jumps, statics>>

NextTick ==
    UpdateEnter \/ UpdateWithoutInputs \/ UpdateCall \/ UpdateReturn
    \/ PhysicsStep

SpecTick == InitTick /\ [][NextTick]_vars

\* the calls made so far by the update() that is running, or by the last
\* one that ended
Done ==
    IF pc.at = "update" THEN pc.done
    ELSE IF last.op = "update" THEN last.done
    ELSE <<>>

\* the call was made
Ran(name) == \E k \in 1 .. Len(Done) : Done[k] = name

\* C20: the order of the steps within a tick: in every call of update()
\* updateMove and updateCrounch run before updateGround, the drift of the
\* platform (updatePlatformPosition) is applied after updateGround, and
\* setWeapon runs after both.
C20_TickOrder ==
    /\ Ran("updateGround") => (Ran("updateMove") /\ Ran("updateCrounch"))
    /\ Ran("updatePlatformPosition") => Ran("updateGround")
    /\ Ran("setWeapon") =>
          (Ran("updateGround") /\ Ran("updatePlatformPosition"))

(***************************************************************************)
(* The speed of updateMove                                                 *)
(***************************************************************************)
\* C21: the speed selection: for a unit-length axis on the ground the
\* horizontal speed updateMove produces equals the crouch speed
\* (crounchSpeed) when isCrounched is true and moveSpeed otherwise.
C21_SpeedSelection ==
    ( /\ last.op = "updateMove"
      /\ IsTrue(last.before.isGrounded)
      /\ SqrLength(GivenAxis(last.axis)) = AXIS_DEN * AXIS_DEN ) =>
        LET speed == IF ch.isCrounched THEN ch.crounchSpeed ELSE ch.moveSpeed
        IN  /\ IsNum(ch.velocity.x) /\ IsNum(ch.velocity.z)
            /\ Val(ch.velocity.x) * Val(ch.velocity.x)
                 + Val(ch.velocity.z) * Val(ch.velocity.z)
               = (AXIS_DEN * speed) * (AXIS_DEN * speed)

(***************************************************************************)
(* The collision filter of the body (Weapon.js)                            *)
(***************************************************************************)
\* bit 0 of the filters: the world
WORLD == 1

\* Character.FILTERS: the group and mask of each team, and of the
\* character of the current player
FILTERS ==
    [none       |-> [group |-> 7,     mask |-> 7],
     alpha      |-> [group |-> 11,    mask |-> 11],
     beta       |-> [group |-> 19,    mask |-> 19],
     self_none  |-> [group |-> WORLD, mask |-> WORLD],
     self_alpha |-> [group |-> WORLD, mask |-> WORLD],
     self_beta  |-> [group |-> WORLD, mask |-> WORLD]]

\* the filter the constructor gives to the body of the character of player,
\* from options.team, options.filterGroup and options.filterMask; reading
\* this.player.current throws when there is no player
CollisionFilter(player, options) ==
    IF ~NotNullish(player)
    THEN [threw |-> TRUE, collisionFilterGroup |-> Undefined,
          collisionFilterMask |-> Undefined]
    ELSE
        LET team   == Val(OrElse(options.team, Str("none")))
            isSelf == IF Truthy(Field(player, "current")) THEN "self_" ELSE ""
            key    == isSelf \o team
            filter == IF key \in DOMAIN FILTERS THEN FILTERS[key]
                      ELSE FILTERS.none
            fg     == options.filterGroup
            fm     == options.filterMask
        IN  [threw |-> FALSE,
             collisionFilterGroup |->
                 IF NotNullish(fg) THEN fg ELSE Num(filter.group),
             collisionFilterMask |->
                 IF NotNullish(fm) THEN fm ELSE Num(filter.mask)]

\* the teams given in the options: none given, the three teams, and names
\* that are no team
Teams ==
    {Undefined, Str(""), Str("none"), Str("alpha"), Str("beta"),
     Str("gamma")}

\* the filter overrides given in the options
FilterOverrides == {Undefined, Null, Num(0), Num(3)}

FilterOptions ==
    [team : Teams, filterGroup : FilterOverrides,
     filterMask : FilterOverrides]

\* the players: none, the current player, another player
Players ==
    {Undefined, Obj([current |-> Bool(TRUE)]), Obj([current |-> Bool(FALSE)]),
     Obj([name |-> Str("bot")])}

InitFilter ==
    /\ ch = Fresh
    /\ last = NoCall
    /\ pc = Idle
    /\ peer = Fresh
    /\ calls = 0
    /\ world = FlatWorld
    /\ jumps = 0
    /\ statics = Statics

\* new Character(player, ..., options): last keeps the body's filter
NewCharacter ==
    \E player \in Players, options \in FilterOptions :
        LET r == CollisionFilter(player, options)
        IN  /\ pc = Idle
            /\ last' = [op |-> "new Character", player |-> player,
                        options |-> options, threw |-> r.threw,
                        collisionFilterGroup |-> r.collisionFilterGroup,
                        collisionFilterMask |-> r.collisionFilterMask]
            /\ UNCHANGED <<ch, pc, peer, calls, world, jumps, statics>>

NextFilter == NewCharacter

SpecFilter == InitFilter /\ [][NextFilter]_vars

\* C22: the filters of the owner's own character are WORLD-only: for every
\* team value (none, alpha, beta, or a name that is no team), a character
\* created for the current player gets group = mask = WORLD unless
\* filterGroup or filterMask override it, and the lookup never throws.
C22_SelfFiltersWorldOnly ==
    ( /\ last.op = "new Character"
      /\ NotNullish(last.player)
      /\ Truthy(Field(last.player, "current")) ) =>
        /\ ~last.threw
        /\ ~NotNullish(last.options.filterGroup) =>
               last.collisionFilterGroup = Num(WORLD)
        /\ ~NotNullish(last.options.filterMask) =>
               last.collisionFilterMask = Num(WORLD)

(***************************************************************************)
(* The id of a character                                                   *)
(***************************************************************************)
\* Number.MIN_SAFE_INTEGER
MinSafe == -MaxSafe

\* Number.isSafeInteger(v)
IsSafeInteger(v) == IsNum(v) /\ MinSafe <= Val(v) /\ Val(v) <= MaxSafe

\* v++ : the value read, as a number, and the value written back
PostIncrement(v) ==
    IF IsNum(v) THEN [read |-> v, written |-> Num(Val(v) + 1)]
    ELSE [read |-> NaN, written |-> NaN]

\* this.id = Character.idCounter++, and the roll back of the counter:
\* the id of the new character and the static properties left
AssignId(st) ==
    LET r == PostIncrement(st.idCounter)
    IN  [id      |-> r.read,
         statics |-> [st EXCEPT !.idCounter =
                         IF ~IsSafeInteger(r.written) THEN Num(MinSafe)
                         ELSE r.written]]

InitId ==
    /\ ch = Fresh
    /\ last = [op |-> "load", ids |-> <<>>]
    /\ pc = Idle
    /\ peer = Fresh
    /\ calls = 0
    /\ world = FlatWorld
    /\ jumps = 0
    /\ statics = Statics

\* new Character(...): last keeps the id of the new character and, in ids,
\* those of the characters constructed before it
Construct ==
    \E w \in WeaponLists :
        /\ pc = Idle
        /\ calls < MaxCharacters
        /\ calls' = calls + 1
        /\ ch' = Character(w, NoOptions)
        /\ statics' = AssignId(statics).statics
        /\ last' = [op |-> "new Character", id |-> AssignId(statics).id,
                    ids |-> IF last.op = "new Character"
                            THEN Append(last.ids, last.id) ELSE <<>>]
        /\ UNCHANGED <<pc, peer, world, jumps>>

NextId == Construct

SpecId == InitId /\ [][NextId]_vars

\* C23: the identifiers: the first character constructed gets id 0 and each
\* one constructed after it gets the id of the one before plus 1, so that
\* the ids are pairwise distinct until the counter leaves the safe range
\* and is set back to the least safe integer.
C23_IdAssignment ==
    ( /\ last.op = "new Character"
      /\ Len(last.ids) <= MaxSafe ) =>
        /\ last.id = Num(Len(last.ids))
        /\ \A k \in 1 .. Len(last.ids) : last.ids[k] # last.id

(***************************************************************************)
(* The jump window                                                         *)
(***************************************************************************)
\* the tick was entered within the window of an earlier press: the press
\* set the timer to JUMP_TIMER and the ticks since, at most JUMP_TIMER - 1
\* of them, have left some of it
WindowOpen == ~last.jump /\ last.before.jumpTimer > 0

\* C24: the jump window of JUMP_TIMER = 10 ticks: after a press made in the
\* air, the jump is applied (velocity.y = jumpForce, jumpTimer = 0) on the
\* first grounded tick that falls within the 10 ticks after the press; the
\* timer is never below 0, never above 10, and a tick that applies no jump
\* lowers it by at most 1.
C24_JumpWindow ==
    last.op = "updateMove" =>
        /\ 0 <= ch.jumpTimer /\ ch.jumpTimer <= JUMP_TIMER
        /\ (~last.jumped /\ ~last.jump) =>
               ch.jumpTimer >= last.before.jumpTimer - 1
        /\ (WindowOpen /\ IsTrue(last.before.isGrounded)) =>
               /\ last.jumped
               /\ ch.velocity.y = Num(ch.jumpForce * AXIS_DEN)
               /\ ch.jumpTimer = 0

(***************************************************************************)
(* The ceiling check of updateCrounch                                      *)
(***************************************************************************)
\* the tick tried to stand up: crouch released on a crouched character
TriedToStand ==
    last.op = "updateCrounch" /\ ~last.crounch /\ last.before.isCrounched

\* C25: the ceiling check evaluates all five probes: a tick that tries to
\* stand up casts a ray for every probe, whatever the earlier probes
\* answered, and standing up is blocked exactly when at least one probe
\* hits.
C25_CeilingAllProbes ==
    TriedToStand =>
        /\ last.rays = Cardinality(Dimensions.vertices)
        /\ CanGetUp(last.before, last.crounch, last.ceiling).canGetUp
             <=> ~(\E i \in Vertices : last.ceiling[i])

(***************************************************************************)
(* setWeapon with an index in bounds                                       *)
(***************************************************************************)
\* C26: an index in bounds at an absent slot is a relative 'next' request:
\* setWeapon(k) with 0 <= k < weapons.length leaves currentWeapon = k when
\* slot k is populated, and, when slot k is absent, leaves currentWeapon on
\* the first populated slot after the current one in cyclic order.
C26_InBoundsAbsentIsNext ==
    (last.op = "setWeapon" /\ InBounds(last.before, last.arg)) =>
        IF Populated(last.before, Val(last.arg))
        THEN ch.currentWeapon = last.arg
        ELSE SomePopulated(last.before) =>
                 ch.currentWeapon =
                     Num(FirstPopulated(last.before,
                                        ToNumber(last.before.currentWeapon), 1))

(***************************************************************************)
(* setWeapon of Weapon.js                                                  *)
(*                                                                         *)
(* The Character of Weapon.js has the setWeapon of part_000 but for its    *)
(* first line; its constructor sets currentWeapon to 0.                    *)
(***************************************************************************)
\* the guard of the first line: this.weapons.length === 0 && index == null
setWeaponReturnsAtOnce_WeaponJs(c, index) ==
    Len(c.weapons) = 0 /\ ~NotNullish(index)

InitWeapon_WeaponJs ==
    /\ ch \in { [Character(w, NoOptions) EXCEPT !.currentWeapon = Num(0)] :
                  w \in WeaponLists }
    /\ last = NoCall
    /\ pc = Idle
    /\ peer = Fresh
    /\ calls = 0
    /\ world = FlatWorld
    /\ jumps = 0
    /\ statics = Statics

\* setWeapon(index) that returns without entering the loop
SetWeaponReturn_WeaponJs ==
    \E index \in Indexes :
        /\ pc = Idle /\ Called
        /\ setWeaponReturnsAtOnce_WeaponJs(ch, index) \/ InBounds(ch, index)
        /\ ch' = IF setWeaponReturnsAtOnce_WeaponJs(ch, index) THEN ch
                  ELSE setWeaponDirect(ch, index)
        /\ last' = [op |-> "setWeapon", arg |-> index, before |-> ch]
        /\ UNCHANGED <<pc, peer, world, jumps, statics>>

\* setWeapon(index) that enters the loop
SetWeaponEnter_WeaponJs ==
    \E index \in Indexes :
        /\ pc = Idle /\ Called
        /\ ~setWeaponReturnsAtOnce_WeaponJs(ch, index) /\ ~InBounds(ch, index)
        /\ pc' = [at |-> "setWeapon", index |-> index, before |-> ch,
                  newWeap |-> ToNumber(ch.currentWeapon),
                  incre |-> Incre(index),
                  i |-> 0, stop |-> FALSE, visits |-> 0]
        /\ UNCHANGED <<ch, last, peer, world, jumps, statics>>

NextWeapon_WeaponJs ==
    SetWeaponReturn_WeaponJs \/ SetWeaponEnter_WeaponJs
    \/ SetWeaponLoop \/ SetWeaponExit

SpecWeapon_WeaponJs == InitWeapon_WeaponJs /\ [][NextWeapon_WeaponJs]_vars

\* the code keeps running the loop it has entered
SpecWeaponFair_WeaponJs ==
    SpecWeapon_WeaponJs /\ WF_vars(SetWeaponLoop) /\ WF_vars(SetWeaponExit)

\* the fields of c other than currentWeapon are those of before
OnlyCurrentWeaponChanged(c, before) ==
    [c EXCEPT !.currentWeapon = before.currentWeapon] = before

\* C27: setWeapon is a no-op without a request: a call made with an empty
\* weapon list or with an index that is not a number (undefined, as in a
\* tick without weapon selection) returns and leaves currentWeapon and
\* every other field of the character unchanged; every other call changes
\* currentWeapon only.
C27_NoOpWithoutRequest ==
    /\ [](last.op = "setWeapon" =>
            IF setWeaponReturnsAtOnce(last.before, last.arg)
            THEN ch = last.before
            ELSE OnlyCurrentWeaponChanged(ch, last.before))
    /\ (pc.at = "setWeapon" /\ setWeaponReturnsAtOnce(pc.before, pc.index))
         ~> (pc = Idle /\ last.op = "setWeapon" /\ ch = last.before)

(***************************************************************************)
(* The offset of the body shape                                            *)
(***************************************************************************)
\* C28: the top edge is anchored: in every reachable state, from the
\* construction on and after every updateCrounch tick, those in the middle
\* of a transition included, the vertical offset of the body shape is the
\* negative of its vertical half-extent.
C28_TopEdgeAnchored == ch.shapeOffsetY = -ch.halfExtentsY

(***************************************************************************)
(* updateCrounch under inputs that stay the same                           *)
(*                                                                         *)
(* update() calls updateCrounch in every tick.  The first ticks of a run   *)
(* have any crouch input and any ceiling; the ticks after them repeat the  *)
(* input and the ceiling of the tick before.                               *)
(***************************************************************************)
\* the ceilings of these ticks: nothing above, something above the first
\* probe, above the last one, above all of them
SomeCeilings ==
    { c \in Ceilings :
        \/ \A i \in Vertices : ~c[i]
        \/ \A i \in Vertices : c[i] <=> i = 1
        \/ \A i \in Vertices : c[i] <=> i = Cardinality(Vertices)
        \/ \A i \in Vertices : c[i] }

\* a tick with any crouch input under any of these ceilings
CrounchTick ==
    \E crounch \in BOOLEAN, ceiling \in SomeCeilings :
        /\ pc = Idle
        /\ calls < MaxTicks
        /\ calls' = calls + 1
        /\ ch' = updateCrounch(ch, crounch, ceiling)
        /\ last' = [op |-> "updateCrounch", crounch |-> crounch,
                    ceiling |-> ceiling, before |-> ch,
                    rays |-> CanGetUp(ch, crounch, ceiling).rays]
        /\ UNCHANGED <<pc, peer, world, jumps, statics>>

\* a tick with the crouch input and the ceiling of the tick before
CrounchTickSame ==
    /\ pc = Idle
    /\ last.op = "updateCrounch"
    /\ ch' = updateCrounch(ch, last.crounch, last.ceiling)
    /\ last' = [last EXCEPT
                  !.before = ch,
                  !.rays   = CanGetUp(ch, last.crounch, last.ceiling).rays]
    /\ UNCHANGED <<pc, peer, calls, world, jumps, statics>>

NextCrouchHeld == CrounchTick \/ CrounchTickSame

\* the ticks go on
SpecCrouchHeld ==
    /\ InitCrouch /\ [][NextCrouchHeld]_vars
    /\ WF_vars(CrounchTick) /\ WF_vars(CrounchTickSame)

\* a probe of the ceiling hits
CeilingHit(ceiling) == \E i \in Vertices : ceiling[i]

\* under the input and the ceiling of the last tick the character c goes
\* down: crouch is held, or c is crouched under a ceiling
AimsToCrouch(c) == last.crounch \/ (c.isCrounched /\ CeilingHit(last.ceiling))

\* the height the body shape of c is driven to
TargetHeight(c) == IF AimsToCrouch(c) THEN c.bodyCrounched ELSE c.bodyHeight

\* C29: monotonic crouch convergence: over ticks of updateCrounch whose
\* crouch input and ceiling do not change, the half-extent of the body
\* shape never grows while the character goes down and never shrinks while
\* it goes up, reaches the target bound after finitely many ticks, is then
\* exactly the target, and stays there.
C29_MonotonicConvergence ==
    /\ [][CrounchTickSame =>
            IF AimsToCrouch(ch) THEN ch'.halfExtentsY <= ch.halfExtentsY
            ELSE ch'.halfExtentsY >= ch.halfExtentsY]_vars
    /\ <>[](last.op = "updateCrounch"
            /\ ch.halfExtentsY * 2 = TargetHeight(ch))

\* C30: standing up eventually succeeds: from every reachable state, a
\* crouch tapped on a freshly constructed character included, if from some
\* tick on the crouch input stays released and no ceiling probe hits, then
\* after finitely many ticks the body shape has the standing height and
\* isCrounched is false; and a tick of a crouched character under a ceiling
\* that some probe hits leaves isCrounched true.
C30_StandingUpSucceeds ==
    /\ []((last.op = "updateCrounch" /\ last.before.isCrounched
           /\ CeilingHit(last.ceiling)) => ch.isCrounched)
    /\ <>[]((last.op = "updateCrounch" /\ ~last.crounch
             /\ ~CeilingHit(last.ceiling)) =>
                (ch.halfExtentsY * 2 = ch.bodyHeight /\ ~ch.isCrounched))

(***************************************************************************)
(* The platform after a ground check                                       *)
(***************************************************************************)
\* the first probe of world w that hits a walkable surface
FirstWalkable(w) ==
    CHOOSE i \in WalkableProbes(w) : \A j \in WalkableProbes(w) : i <= j

\* the character stands on a kinematic body of world w
OnKinematic(w) ==
    WalkableProbes(w) # {} /\ IsKinematic(w[FirstWalkable(w)].body)

\* C31: the platform after a ground check: every updateGround call returns
\* with a platform record that is non-null exactly when the character is
\* grounded on a kinematic body, and whose body is then that body; the
\* record is cleared when the character is grounded on a non-kinematic body
\* or airborne.
C31_PlatformAttachment ==
    last.op = "updateGround" =>
        /\ ~last.threw
        /\ ch.platform # Null <=> OnKinematic(last.world)
        /\ OnKinematic(last.world) =>
               Val(ch.platform).body = last.world[FirstWalkable(last.world)].body

(***************************************************************************)
(* The velocity updateMove leaves, from the velocity the tick finds        *)
(***************************************************************************)
\* the velocities the physics step leaves to the tick, in 1/AXIS_DEN: at
\* rest, falling while drifting, rising while drifting the other way
FoundVelocities ==
    { [x |-> Num(0), y |-> Num(0), z |-> Num(0)],
      [x |-> Num(7 * AXIS_DEN), y |-> Num(-5 * AXIS_DEN), z |-> Num(-3 * AXIS_DEN)],
      [x |-> Num(-AXIS_DEN - 1), y |-> Num(12 * AXIS_DEN), z |-> Num(4 * AXIS_DEN)] }

\* a character as a tick finds it: looking in direction theta, on the
\* ground or in the air, standing or crouched, with its jump timer idle or
\* running, moving at one of the velocities
InitVelocity ==
    /\ \E theta \in -1 .. 2, grounded, crounched \in BOOLEAN,
          timer \in {0, 1, JUMP_TIMER - 1}, v \in FoundVelocities :
           ch = [Character(<<TRUE>>, NoOptions) EXCEPT
                    !.orientation = [@ EXCEPT !.x = theta],
                    !.isGrounded  = Bool(grounded),
                    !.isCrounched = crounched,
                    !.jumpTimer   = timer,
                    !.velocity    = v]
    /\ last = NoCall
    /\ pc = Idle
    /\ peer = Fresh
    /\ calls = 0
    /\ world = FlatWorld
    /\ jumps = 0
    /\ statics = Statics

\* updateMove(axis, jump) applied once to each character
MoveOnce == last = NoCall /\ UpdateMoveOn(Axes)

NextVelocity == MoveOnce

SpecVelocity == InitVelocity /\ [][NextVelocity]_vars

\* C32: the vertical velocity is preserved: in every updateMove tick that
\* applies no jump (the character is in the air, or on the ground with the
\* jump timer not positive), the vertical velocity after the tick is the
\* one before it, for every axis and orientation.
C32_VerticalVelocityPreserved ==
    (last.op = "updateMove" /\ ~last.jumped) =>
        ch.velocity.y = last.before.velocity.y

\* a falling, drifting character in the air that looks sideways and is
\* given an axis too long: its horizontal velocity changed, its fall did not
C32_Witness ==
    /\ last.op = "updateMove" /\ ~last.jumped
    /\ ~IsTrue(last.before.isGrounded) /\ ~ch.isCrounched
    /\ ch.orientation.x = 1
    /\ GivenAxis(last.axis) = [x |-> 3 * AXIS_DEN, y |-> -2 * AXIS_DEN]
    /\ last.before.velocity.y = Num(-5 * AXIS_DEN)
    /\ ch.velocity.y = Num(-5 * AXIS_DEN)
    /\ ch.velocity.x # last.before.velocity.x

\* the horizontal components updateMove computes for character c from the
\* axis, before the old velocity has its share
NewVelocity(c, axis) ==
    LET a     == ClampedAxis(axis)
        theta == c.orientation.x
    IN  [x |-> TimesSpeed(a.x * Cos(theta) - a.y * Sin(theta), Speed(c)),
         z |-> TimesSpeed(-a.x * Sin(theta) - a.y * Cos(theta), Speed(c))]

\* v is the average of a and b, to the unit of the arithmetic; NaN when
\* either is
IsAverage(v, a, b) ==
    IF IsNum(a) /\ IsNum(b)
    THEN IsNum(v) /\ Abs(2 * Val(v) - (Val(a) + Val(b))) <= 1
    ELSE v = NaN

\* C33: air control blending: in every updateMove tick of a character that
\* is not grounded, each horizontal component of the velocity after the
\* tick is the average of the newly computed component and the component
\* before the tick; in every tick of a grounded character the horizontal
\* velocity is the newly computed one, the velocity before having no share.
C33_AirControlBlending ==
    last.op = "updateMove" =>
        LET new == NewVelocity(last.before, last.axis)
            old == last.before.velocity
        IN  IF IsTrue(last.before.isGrounded)
            THEN ch.velocity.x = new.x /\ ch.velocity.z = new.z
            ELSE /\ IsAverage(ch.velocity.x, new.x, old.x)
                 /\ IsAverage(ch.velocity.z, new.z, old.z)

\* a standing character in the air that drifts at 7 along x and is given
\* the axis (1, 0): it leaves the tick half way between 7 and its walk
\* speed along x, and at half its drift along z
C33_Witness ==
    /\ last.op = "updateMove"
    /\ ~IsTrue(last.before.isGrounded) /\ ~ch.isCrounched
    /\ ch.orientation.x = 0
    /\ GivenAxis(last.axis) = [x |-> AXIS_DEN, y |-> 0]
    /\ last.before.velocity.x = Num(7 * AXIS_DEN)
    /\ ch.velocity.x = Num(Quotient(ch.moveSpeed * AXIS_DEN + 7 * AXIS_DEN, 2))
    /\ ch.velocity.z = Num(Quotient(-3 * AXIS_DEN, 2))

====
